---- MODULE Spec2Model ----
(***************************************************************************)
(* A model of n_monitor's host Monitors (Monitors/host.py) and of its file *)
(* Loggers (Loggers/file.py).                                              *)
(*                                                                         *)
(* One Monitor object, whose variant and options are fixed by Init, is run *)
(* again and again with arbitrary probe outcomes; a FileLogger and a       *)
(* JsonLogger are handed (name, monitor) pairs and write to their          *)
(* destinations.  Strings are abstracted to tags, times to a counter.      *)
(* The size-string functions of host.py are modelled character by          *)
(* character.                                                              *)
(***************************************************************************)
EXTENDS Integers, Sequences, FiniteSets, TLC

VARIABLES
    monitor,        \* the Monitor object: its options and its failure state
    psutil,         \* the module-level name psutil: None or the module
    now,            \* the wall clock
    run_outcome,    \* what the last run_test call did: ret and record_* calls
    failing_runs,   \* history: run_test calls since the last one that succeeded
    file_logger,    \* the FileLogger object and its file handle
    log_file,       \* the file at FileLogger.filename and the rotated-away one
    file_outcome,   \* what the last FileLogger call did
    json_logger,    \* the JsonLogger object (batch_data, position in a flush)
    json_file,      \* the file at JsonLogger.filename
    json_outcome,   \* what the last JsonLogger call did
    size            \* a size-string conversion: byte count, text, parsed value

monitor_vars == <<monitor, psutil, now, run_outcome, failing_runs>>
file_vars    == <<file_logger, log_file, file_outcome>>
json_vars    == <<json_logger, json_file, json_outcome>>
size_vars    == <<size>>
vars         == <<monitor, psutil, now, run_outcome, failing_runs,
                  file_logger, log_file, file_outcome,
                  json_logger, json_file, json_outcome, size>>

\* Python's None, where the other values are numbers; the imported psutil module.
None == -1
Imported == 1

(***************************************************************************)
(* Bounds.                                                                 *)
(***************************************************************************)
MaxFail   == 3      \* virtual_fail_count is not run past this
MaxTime   == 2      \* the clock is not run past this
MaxBlocks == 2      \* blocks of the partition (f_blocks), when it has any
MaxLoad   == 2      \* load figures are 0..MaxLoad
MaxOutput == 2      \* lines of output of the audit tool
MaxLines  == 3      \* lines a FileLogger writes, the starting line included
MaxRotate == 1      \* times the log file is rotated away
MaxDelta  == 3      \* byte counts are taken this far around each unit

(***************************************************************************)
(* Monitor: the failure-state machine every variant records through.       *)
(***************************************************************************)
record_fail_resets_time(self, message) ==
    [self EXCEPT !.last_result = message,
                 !.first_failure_time = now,
                 !.virtual_fail_count = @ + 1]

record_fail(self, message) ==
    [self EXCEPT !.last_result = message,
                 !.first_failure_time =
                     IF self.virtual_fail_count = 0 THEN now ELSE @,
                 !.virtual_fail_count = @ + 1]

record_success(self, message) ==
    [self EXCEPT !.last_result = message,
                 !.virtual_fail_count = 0,
                 !.first_failure_time = None,
                 !.was_skipped = FALSE]

Failed_twice(self, message) ==
    [monitor |-> record_fail(record_fail(self, message), message),
     ret |-> "False", calls |-> <<"record_fail", "record_fail">>]

\* What a run_test call amounts to: the object afterwards, the value returned
\* ("True", "False") or "raised", and the record_* calls made, in order.
Failed(self, message) ==
    [monitor |-> record_fail(self, message), ret |-> "False",
     calls |-> <<"record_fail">>]

Succeeded(self, message) ==
    [monitor |-> record_success(self, message), ret |-> "True",
     calls |-> <<"record_success">>]

Raised(self) ==
    [monitor |-> self, ret |-> "raised", calls |-> <<>>]

(***************************************************************************)
(* Size strings.                                                           *)
(*                                                                         *)
(* A byte count b is kept as [hi, lo] with b = hi * Mega + lo and          *)
(* 0 <= lo < Mega, so that 1024^4 and beyond stay within 32-bit integers;  *)
(* a str is kept as the sequence of its characters.                        *)
(***************************************************************************)
Kilo == 1024
Mega == 1048576

Bytes(n) == [hi |-> n \div Mega, lo |-> n % Mega]

\* b + d, for -Mega < d < Mega.
Plus(b, d) ==
    LET n == b.lo + d
    IN  IF n < 0 THEN [hi |-> b.hi - 1, lo |-> n + Mega]
        ELSE IF n >= Mega THEN [hi |-> b.hi + 1, lo |-> n - Mega]
        ELSE [hi |-> b.hi, lo |-> n]

Gt(a, b) == a.hi > b.hi \/ (a.hi = b.hi /\ a.lo > b.lo)
Ge(a, b) == ~Gt(b, a)

kb == Bytes(Kilo)
mb == [hi |-> 1, lo |-> 0]
gb == [hi |-> Kilo, lo |-> 0]
tb == [hi |-> Mega, lo |-> 0]

DigitChars == <<"0", "1", "2", "3", "4", "5", "6", "7", "8", "9">>

\* str(n) of an int n >= 0.
RECURSIVE str(_)
str(n) ==
    IF n < 10 THEN <<DigitChars[n + 1]>>
    ELSE Append(str(n \div 10), DigitChars[(n % 10) + 1])

\* int(s) of a str: the number a run of decimal digits denotes, ValueError
\* for anything else (signs, blanks and underscores are not modelled).
RECURSIVE DigitsValue(_)
DigitsValue(chars) ==
    IF chars = <<>> THEN 0
    ELSE 10 * DigitsValue(SubSeq(chars, 1, Len(chars) - 1))
         + (CHOOSE d \in 0..9 : DigitChars[d + 1] = chars[Len(chars)])

int(chars) ==
    IF chars # <<>> /\ \A i \in 1..Len(chars) :
                          \E d \in 1..10 : DigitChars[d] = chars[i]
    THEN [t |-> "int", n |-> DigitsValue(chars)]
    ELSE [t |-> "ValueError"]

\* "%0.2f": the float b / unit is exact (b < 2^53, unit a power of 2) and is
\* rounded to hundredths, a tie going to the even one.  q is the whole
\* number of hundredths, cmp how the rest compares with half a hundredth.
RoundHalfEven(q, cmp) ==
    IF cmp > 0 \/ (cmp = 0 /\ q % 2 = 1) THEN q + 1 ELSE q

Sign(x) == IF x > 0 THEN 1 ELSE IF x < 0 THEN -1 ELSE 0

\* The hundredths of b / kb, for b <= mb.
HundredthsOfKilo(b) ==
    LET n == (b.hi * Mega + b.lo) * 100
    IN  RoundHalfEven(n \div Kilo, Sign(2 * (n % Kilo) - Kilo))

\* The hundredths of b / (d * mb), for d = 1 (mb), Kilo (gb) and Mega (tb).
HundredthsOf(b, d) ==
    LET x   == b.lo * 100
        T   == (b.hi * 100) + (x \div Mega)
        xr  == x % Mega
        r1  == T % d
        cmp == IF d = 1 THEN Sign(2 * xr - Mega)
               ELSE IF 2 * r1 # d THEN Sign(2 * r1 - d)
               ELSE IF xr > 0 THEN 1 ELSE 0
    IN  RoundHalfEven(T \div d, cmp)

Format2f(h) ==
    str(h \div 100)
    \o <<".", DigitChars[((h % 100) \div 10) + 1], DigitChars[(h % 10) + 1]>>

_bytes_to_size_string(b) ==
    IF Gt(b, tb) THEN Format2f(HundredthsOf(b, Mega)) \o <<"T", "i", "B">>
    ELSE IF Gt(b, gb) THEN Format2f(HundredthsOf(b, Kilo)) \o <<"G", "i", "B">>
    ELSE IF Gt(b, mb) THEN Format2f(HundredthsOf(b, 1)) \o <<"M", "i", "B">>
    ELSE IF Gt(b, kb) THEN Format2f(HundredthsOfKilo(b)) \o <<"K", "i", "B">>
    ELSE str(b.lo)

\* The argument is None or a str; the result None, an int, or ValueError
\* raised by int().
_size_string_to_bytes(s) ==
    IF s.t = "None" THEN [t |-> "None"]
    ELSE LET chars == s.chars
             last  == IF chars = <<>> THEN "" ELSE chars[Len(chars)]
             num   == int(SubSeq(chars, 1, Len(chars) - 1))
             whole == int(chars)
         IN  IF last = "G"
             THEN IF num.t = "ValueError" THEN num
                  ELSE [t |-> "int", b |-> [hi |-> num.n * Kilo, lo |-> 0]]
             ELSE IF last = "M"
             THEN IF num.t = "ValueError" THEN num
                  ELSE [t |-> "int", b |-> [hi |-> num.n, lo |-> 0]]
             ELSE IF last = "K"
             THEN IF num.t = "ValueError" THEN num
                  ELSE [t |-> "int", b |-> Bytes(num.n * Kilo)]
             ELSE IF whole.t = "ValueError" THEN whole
                  ELSE [t |-> "int", b |-> Bytes(whole.n)]

(***************************************************************************)
(* MonitorDiskSpace                                                        *)
(***************************************************************************)
FrSize == 1

\* os.statvfs / win32api.GetDiskFreeSpaceEx: raises, or free and total space.
DiskProbes ==
    {[t |-> "raise"]} \cup
    {p \in [t : {"ok"}, f_bavail : 0..MaxBlocks, f_blocks : {0, MaxBlocks}] :
        p.f_bavail <= p.f_blocks}

DiskSpace_run_test(self, probe) ==
    IF probe.t = "raise" \/ probe.f_blocks = 0
    THEN Failed(self, "Couldn't get free disk space")
    ELSE LET space == probe.f_bavail * FrSize
         IN  IF self.limit # None /\ self.limit # 0 /\ space <= self.limit
             THEN Failed(self, "free")
             ELSE Succeeded(self, "free")

(***************************************************************************)
(* MonitorPortAudit                                                        *)
(***************************************************************************)
\* A line of the tool's output: one the regexp does not match, or one it
\* matches with the count 0, 1 or 2.
OutputLines == {"other", "0 problem(s)", "1 problem(s)", "2 problem(s)"}

RECURSIVE Outputs(_)
Outputs(n) ==
    IF n = 0 THEN {<<>>}
    ELSE Outputs(n - 1) \cup
         {Append(o, l) : o \in {x \in Outputs(n - 1) : Len(x) = n - 1},
                         l \in OutputLines}

\* subprocess.check_output: the decoded output; CalledProcessError, whose
\* output is bytes; OSError; or any other exception (the decoding included).
PortAuditProbes ==
    {[t |-> "output", output |-> o] : o \in Outputs(MaxOutput)} \cup
    {[t |-> "CalledProcessError", output |-> o] : o \in Outputs(MaxOutput)} \cup
    {[t |-> "OSError"], [t |-> "Exception"]}

regexp_count(line) ==
    CASE line = "0 problem(s)" -> 0
      [] line = "1 problem(s)" -> 1
      [] line = "2 problem(s)" -> 2
      [] OTHER -> None

\* The for loop over output.splitlines(): the first matching line decides.
RECURSIVE PortAudit_scan(_, _)
PortAudit_scan(self, lines) ==
    IF lines = <<>> THEN Succeeded(self, "")
    ELSE LET count == regexp_count(Head(lines))
         IN  IF count = None THEN PortAudit_scan(self, Tail(lines))
             ELSE IF count = 0 THEN Succeeded(self, "")
             ELSE IF count = 1 THEN Failed(self, "1 problem")
             ELSE Failed(self, "problems")

PortAudit_run_test(self0, probe) ==
    LET self == [self0 EXCEPT !.path =
                     IF @ = "" THEN "/usr/local/sbin/portaudit" ELSE @]
    IN  CASE probe.t = "OSError" -> Failed(self, "Error running path")
          [] probe.t = "Exception" -> Failed(self, "Error running portaudit")
          [] probe.t = "CalledProcessError" ->
                \* e.output is bytes: the str regexp raises TypeError on the
                \* first line, which the outer handler catches.
                IF probe.output = <<>> THEN Succeeded(self, "")
                ELSE Failed(self, "Could not run portaudit")
          [] OTHER -> PortAudit_scan(self, probe.output)

(***************************************************************************)
(* MonitorLoadAvg                                                          *)
(***************************************************************************)
Loads == 0..MaxLoad

\* os.getloadavg: raises, or the 1, 5 and 15 minute figures.
LoadAvgProbes ==
    {[t |-> "raise"]} \cup
    {[t |-> "ok", loadavg |-> <<a, b, c>>] : a \in Loads, b \in Loads, c \in Loads}

\* "%0.2f" of a whole figure.
FormatLoad(load) == ToString(load) \o ".00"

LoadAvg_run_test_1min(self, probe) ==
    IF probe.t = "raise"
    THEN Failed(self, "Exception getting loadavg")
    ELSE IF probe.loadavg[1] > self.max
         THEN Failed(self, FormatLoad(probe.loadavg[1]))
         ELSE Succeeded(self, FormatLoad(probe.loadavg[1]))

LoadAvg_run_test(self, probe) ==
    IF probe.t = "raise"
    THEN Failed(self, "Exception getting loadavg")
    ELSE IF probe.loadavg[self.which + 1] > self.max
         THEN Failed(self, FormatLoad(probe.loadavg[self.which + 1]))
         ELSE Succeeded(self, FormatLoad(probe.loadavg[self.which + 1]))

(***************************************************************************)
(* MonitorMemory, MonitorSwap                                              *)
(***************************************************************************)
MemTotal == 4

\* psutil.virtual_memory(): raises, or available and total bytes.
MemoryProbes ==
    {[t |-> "raise"]} \cup
    {[t |-> "ok", available |-> a, total |-> MemTotal] : a \in 0..MemTotal} \cup
    {[t |-> "ok", available |-> 0, total |-> 0]}

Memory_run_test(self, probe) ==
    IF psutil = None THEN Failed(self, "psutil is not installed")
    ELSE IF probe.t = "raise" \/ probe.total = 0 THEN Raised(self)
    ELSE LET percent == (probe.available * 100) \div probe.total
         IN  IF percent < self.percent_free
             THEN Failed(self, "% free")
             ELSE Succeeded(self, "% free")

\* psutil.swap_memory(): raises, or the percentage of swap in use.
SwapProbes ==
    {[t |-> "raise"]} \cup {[t |-> "ok", percent |-> p] : p \in {0, 50, 100}}

Swap_run_test(self, probe) ==
    IF psutil = None THEN Failed(self, "psutil is not installed")
    ELSE IF probe.t = "raise" THEN Raised(self)
    ELSE LET percent == 100 - probe.percent
         IN  IF percent < self.percent_free
             THEN Failed(self, "% free")
             ELSE Succeeded(self, "% free")

(***************************************************************************)
(* Construction of the Monitor.                                            *)
(***************************************************************************)
\* Monitor.__init__ (the failure state), then the variant's options.
MonitorDiskSpace(limit) ==
    [_type |-> "diskspace", virtual_fail_count |-> 0, first_failure_time |-> None,
     last_result |-> "", was_skipped |-> FALSE, limit |-> limit]

MonitorPortAudit(path) ==
    [_type |-> "portaudit", virtual_fail_count |-> 0, first_failure_time |-> None,
     last_result |-> "", was_skipped |-> FALSE, path |-> path]

MonitorLoadAvg(which, max) ==
    [_type |-> "loadavg", virtual_fail_count |-> 0, first_failure_time |-> None,
     last_result |-> "", was_skipped |-> FALSE, which |-> which, max |-> max]

MonitorMemory(percent_free) ==
    [_type |-> "memory", virtual_fail_count |-> 0, first_failure_time |-> None,
     last_result |-> "", was_skipped |-> FALSE, percent_free |-> percent_free]

MonitorSwap(percent_free) ==
    [_type |-> "swap", virtual_fail_count |-> 0, first_failure_time |-> None,
     last_result |-> "", was_skipped |-> FALSE, percent_free |-> percent_free]

Monitors ==
    {MonitorDiskSpace(l) : l \in {None} \cup (0..MaxBlocks - 1)}
    \cup {MonitorPortAudit(p) : p \in {"", "/opt/portaudit"}}
    \cup {MonitorLoadAvg(w, m) : w \in 0..2, m \in 0..MaxLoad - 1}
    \cup {MonitorMemory(p) : p \in {0, 50}}
    \cup {MonitorSwap(p) : p \in {0, 50}}

MonitorInit ==
    /\ monitor \in Monitors
    /\ psutil \in {None, Imported}
    /\ now = 0
    /\ run_outcome = [ret |-> "none", calls |-> <<>>]
    /\ failing_runs = 0

(***************************************************************************)
(* The scheduler's calls on the Monitor.                                   *)
(***************************************************************************)
Ran(res) ==
    /\ res.monitor.virtual_fail_count <= MaxFail
    /\ monitor' = res.monitor
    /\ run_outcome' = [ret |-> res.ret, calls |-> res.calls]
    /\ failing_runs' = IF res.ret = "True" THEN 0 ELSE failing_runs + 1
    /\ failing_runs' <= MaxFail + 1
    /\ UNCHANGED <<size_vars, psutil, now, file_vars, json_vars>>

RunDiskSpace ==
    /\ monitor._type = "diskspace"
    /\ \E probe \in DiskProbes : Ran(DiskSpace_run_test(monitor, probe))

RunPortAudit ==
    /\ monitor._type = "portaudit"
    /\ \E probe \in PortAuditProbes : Ran(PortAudit_run_test(monitor, probe))

RunLoadAvg ==
    /\ monitor._type = "loadavg"
    /\ \E probe \in LoadAvgProbes : Ran(LoadAvg_run_test(monitor, probe))

RunMemory ==
    /\ monitor._type = "memory"
    /\ \E probe \in MemoryProbes : Ran(Memory_run_test(monitor, probe))

RunSwap ==
    /\ monitor._type = "swap"
    /\ \E probe \in SwapProbes : Ran(Swap_run_test(monitor, probe))

\* The scheduler skips the Monitor because one it depends on is failing.
Skip ==
    /\ ~monitor.was_skipped
    /\ monitor' = [monitor EXCEPT !.was_skipped = TRUE]
    /\ UNCHANGED <<size_vars, psutil, now, run_outcome, failing_runs,
                   file_vars, json_vars>>

Tick ==
    /\ now < MaxTime
    /\ now' = now + 1
    /\ UNCHANGED <<size_vars, monitor, psutil, run_outcome, failing_runs,
                   file_vars, json_vars>>

\* The Monitor objects a Logger can be handed: every failure state the state
\* machine above reaches (MonitorTypeOK), on a MonitorLoadAvg.
MonitorStates ==
    {[MonitorLoadAvg(1, 1) EXCEPT !.last_result =
                                      IF x[1] = 0 THEN "1.00" ELSE "2.00",
                                  !.virtual_fail_count = x[1],
                                  !.first_failure_time = x[2],
                                  !.was_skipped = x[3]] :
        x \in {y \in (0..MaxFail) \X ({None} \cup (0..MaxTime)) \X BOOLEAN :
                  (y[2] = None) = (y[1] = 0)}}

(***************************************************************************)
(* util.format_datetime: a time as text, None staying None.                *)
(***************************************************************************)
format_datetime(t) == IF t = None THEN "None" ELSE ToString(t)

Names == {"m1", "m2"}

(***************************************************************************)
(* The file system under FileLogger.filename, and text file handles.       *)
(*                                                                         *)
(* log_file.path is the inode the name leads to (None: no such file),      *)
(* log_file.data what each inode holds.  A handle writes into its buffer;  *)
(* the buffer reaches the inode when it is flushed, when it fills up       *)
(* during a write ("spilled") and when the handle is closed.               *)
(***************************************************************************)
Inodes == 0..MaxRotate

NoHandle == [closed |-> TRUE, inode |-> None, buffer |-> <<>>]

\* open(filename, "a+"): the file is created when the name leads nowhere.
open_append(fs) ==
    IF fs.path = None
    THEN [fs |-> [fs EXCEPT !.path = fs.inodes, !.inodes = @ + 1],
          handle |-> [closed |-> FALSE, inode |-> fs.inodes, buffer |-> <<>>]]
    ELSE [fs |-> fs,
          handle |-> [closed |-> FALSE, inode |-> fs.path, buffer |-> <<>>]]

\* An I/O state threads the handle and the file system through a sequence of
\* calls; once a call has raised (exc), the calls after it are not made.
WriteOutcomes == {"buffered", "spilled", "OSError"}
FlushOutcomes == {"flushed", "OSError"}

write(io, text, outcome) ==
    IF io.exc # "" THEN io
    ELSE IF io.handle.closed THEN [io EXCEPT !.exc = "ValueError"]
    ELSE IF outcome = "buffered"
         THEN [io EXCEPT !.handle.buffer = Append(@, text)]
    ELSE IF outcome = "spilled"
         THEN [io EXCEPT !.fs.data[io.handle.inode] =
                             @ \o Append(io.handle.buffer, text),
                         !.handle.buffer = <<>>]
    ELSE [io EXCEPT !.handle.buffer = Append(@, text), !.exc = "OSError"]

flush(io, outcome) ==
    IF io.exc # "" THEN io
    ELSE IF io.handle.closed THEN [io EXCEPT !.exc = "ValueError"]
    ELSE IF outcome = "flushed"
         THEN [io EXCEPT !.fs.data[io.handle.inode] = @ \o io.handle.buffer,
                         !.handle.buffer = <<>>]
    ELSE [io EXCEPT !.exc = "OSError"]

close_without_flush(io, outcome) ==
    IF io.exc # "" \/ io.handle.closed THEN io
    ELSE [io EXCEPT !.handle.buffer = <<>>, !.handle.closed = TRUE]

\* close(): flushes; the handle is closed even when the flush fails, and what
\* was in the buffer is then lost.  Closing a closed handle does nothing.
close(io, outcome) ==
    IF io.exc # "" \/ io.handle.closed THEN io
    ELSE IF outcome = "flushed"
         THEN [io EXCEPT !.fs.data[io.handle.inode] = @ \o io.handle.buffer,
                         !.handle.buffer = <<>>, !.handle.closed = TRUE]
    ELSE [io EXCEPT !.handle.buffer = <<>>, !.handle.closed = TRUE,
                    !.exc = "OSError"]

(***************************************************************************)
(* FileLogger                                                              *)
(***************************************************************************)
StartingLine == [text |-> "simplemonitor starting\n"]
NewLine      == [text |-> "\n"]

OkText(name) == [text |-> "ok", name |-> name]

FailedText(name, mon) ==
    [text |-> "failed since", name |-> name,
     since |-> format_datetime(mon.first_failure_time),
     VFC |-> mon.virtual_fail_count]

\* What the operating system does to the calls of one operation.
InitEnvs == [open : {"opened", "OSError"}, write1 : WriteOutcomes,
             flush : FlushOutcomes]
SaveEnvs == [write1 : WriteOutcomes, write2 : WriteOutcomes,
             flush : FlushOutcomes]
HupEnvs  == [close : FlushOutcomes, open : {"opened", "OSError"}]

\* FileLogger.__init__: the handle is opened, the starting line written.
FileLogger_init(self, fs, env) ==
    IF env.open = "OSError"
    THEN [self |-> self, fs |-> fs, exc |-> "OSError"]
    ELSE LET o   == open_append(fs)
             io0 == [handle |-> o.handle, fs |-> o.fs, exc |-> ""]
             io1 == write(io0, StartingLine, env.write1)
             io2 == IF ~self.buffered THEN flush(io1, env.flush) ELSE io1
         IN  [self |-> [self EXCEPT !.file_handle = io2.handle],
              fs |-> io2.fs, exc |-> io2.exc]

save_result2_no_newline(self, fs, name, mon, env) ==
    IF self.only_failures /\ mon.virtual_fail_count = 0
    THEN [self |-> self, fs |-> fs, exc |-> ""]
    ELSE LET io0 == [handle |-> self.file_handle, fs |-> fs, exc |-> ""]
             io1 == IF mon.virtual_fail_count > 0
                    THEN write(io0, FailedText(name, mon), env.write1)
                    ELSE write(io0, OkText(name), env.write1)
             io3 == IF ~self.buffered THEN flush(io1, env.flush) ELSE io1
         IN  [self |-> [self EXCEPT !.file_handle = io3.handle],
              fs |-> io3.fs, exc |-> io3.exc]

save_result2_no_flush(self, fs, name, mon, env) ==
    IF self.only_failures /\ mon.virtual_fail_count = 0
    THEN [self |-> self, fs |-> fs, exc |-> ""]
    ELSE LET io0 == [handle |-> self.file_handle, fs |-> fs, exc |-> ""]
             io1 == IF mon.virtual_fail_count > 0
                    THEN write(io0, FailedText(name, mon), env.write1)
                    ELSE write(io0, OkText(name), env.write1)
             io2 == write(io1, NewLine, env.write2)
         IN  [self |-> [self EXCEPT !.file_handle = io2.handle],
              fs |-> io2.fs, exc |-> io2.exc]

\* FileLogger.save_result2.  exc is what the try block raised: the handler
\* catches OSError alone.
FileLogger_save_result2(self, fs, name, mon, env) ==
    IF self.only_failures /\ mon.virtual_fail_count = 0
    THEN [self |-> self, fs |-> fs, exc |-> ""]
    ELSE LET io0 == [handle |-> self.file_handle, fs |-> fs, exc |-> ""]
             io1 == IF mon.virtual_fail_count > 0
                    THEN write(io0, FailedText(name, mon), env.write1)
                    ELSE write(io0, OkText(name), env.write1)
             io2 == write(io1, NewLine, env.write2)
             io3 == IF ~self.buffered THEN flush(io2, env.flush) ELSE io2
         IN  [self |-> [self EXCEPT !.file_handle = io3.handle],
              fs |-> io3.fs, exc |-> io3.exc]

hup_without_reopen(self, fs, env) ==
    [self |-> self, fs |-> fs, exc |-> "", at |-> ""]

\* FileLogger.hup: close, then open again; an OSError from either is logged
\* (at: the call that raised it), and open is not reached when close raised.
FileLogger_hup(self, fs, env) ==
    LET io0 == [handle |-> self.file_handle, fs |-> fs, exc |-> ""]
        io1 == close(io0, env.close)
    IN  IF io1.exc # ""
        THEN [self |-> [self EXCEPT !.file_handle = io1.handle],
              fs |-> io1.fs, exc |-> "OSError", at |-> "close"]
        ELSE IF env.open = "OSError"
        THEN [self |-> [self EXCEPT !.file_handle = io1.handle],
              fs |-> io1.fs, exc |-> "OSError", at |-> "open"]
        ELSE LET o == open_append(io1.fs)
             IN  [self |-> [self EXCEPT !.file_handle = o.handle],
                  fs |-> o.fs, exc |-> "", at |-> ""]

\* What the handle has been given so far, flushed or not.
StreamOf(handle, fs) ==
    IF handle.closed THEN <<>> ELSE fs.data[handle.inode] \o handle.buffer

\* The record of a call: its arguments, whether the handle was open, what it
\* raised inside (exc), how it ended (ret), whether it got to its writes, and
\* what it added to the handle's stream (kept: nothing before it was changed),
\* which call of it raised (at), and whether text save_result had given the
\* handle is afterwards neither in its file nor pending in it (lost).
NoCall ==
    [op |-> "none", ret |-> "none", exc |-> "", wrote |-> FALSE, args |-> <<>>,
     was_open |-> FALSE, kept |-> TRUE, appended |-> <<>>, at |-> "",
     lost |-> FALSE]

Call(op, args, exc, ret, wrote, self, fs, r) ==
    LET before == StreamOf(self.file_handle, fs)
        after  == StreamOf(r.self.file_handle, r.fs)
        kept   == /\ Len(after) >= Len(before)
                  /\ SubSeq(after, 1, Len(before)) = before
        old    == self.file_handle
        new    == r.self.file_handle
        there  == IF old.closed THEN <<>>
                  ELSE r.fs.data[old.inode]
                       \o (IF ~new.closed /\ new.inode = old.inode
                           THEN new.buffer ELSE <<>>)
    IN  [op |-> op, ret |-> ret, exc |-> exc, wrote |-> wrote, args |-> args,
         was_open |-> ~self.file_handle.closed, kept |-> kept,
         appended |-> IF kept THEN SubSeq(after, Len(before) + 1, Len(after))
                      ELSE <<>>,
         at |-> "",
         lost |-> \E i \in 1..Len(before) :
                     /\ before[i].text \in {"ok", "failed since", "\n"}
                     /\ (i > Len(there) \/ there[i] # before[i])]

FileInit ==
    /\ file_logger \in [constructed : {FALSE}, only_failures : BOOLEAN,
                        buffered : BOOLEAN, file_handle : {NoHandle}]
    /\ log_file = [path |-> None, inodes |-> 0, data |-> [i \in Inodes |-> <<>>]]
    /\ file_outcome = NoCall

\* Everything written so far, wherever it went.
Written ==
    LET RECURSIVE Sum(_)
        Sum(i) == IF i > MaxRotate THEN 0 ELSE Len(log_file.data[i]) + Sum(i + 1)
    IN  Sum(0) + Len(file_logger.file_handle.buffer)

ConstructFileLogger ==
    /\ ~file_logger.constructed
    /\ file_outcome.op = "none"
    /\ \E env \in InitEnvs :
          LET r == FileLogger_init(file_logger, log_file, env)
          IN  /\ file_logger' = IF r.exc = "" THEN [r.self EXCEPT !.constructed = TRUE]
                                ELSE file_logger
              /\ log_file' = r.fs
              /\ file_outcome' =
                    Call("__init__", <<>>, r.exc,
                         IF r.exc = "" THEN "returned" ELSE "raised", TRUE,
                         file_logger, log_file, r)
    /\ UNCHANGED <<size_vars, monitor_vars, json_vars>>

FileSaveResult(name, mon) ==
    /\ file_logger.constructed
    /\ Written + 2 <= 2 * MaxLines - 1
    /\ \E env \in SaveEnvs :
          LET r == FileLogger_save_result2(file_logger, log_file, name, mon, env)
          IN  /\ file_logger' = r.self
              /\ log_file' = r.fs
              /\ file_outcome' =
                    Call("save_result",
                         <<name, mon.virtual_fail_count, mon.first_failure_time>>,
                         r.exc,
                         IF r.exc = "ValueError" THEN "raised" ELSE "returned",
                         ~(file_logger.only_failures /\ mon.virtual_fail_count = 0),
                         file_logger, log_file, r)
    /\ UNCHANGED <<size_vars, monitor_vars, json_vars>>

Hup ==
    /\ file_logger.constructed
    /\ \E env \in HupEnvs :
          LET r == FileLogger_hup(file_logger, log_file, env)
          IN  /\ file_logger' = r.self
              /\ log_file' = r.fs
              /\ file_outcome' =
                    [Call("hup", <<>>, r.exc, "returned", FALSE,
                          file_logger, log_file, r) EXCEPT !.at = r.at]
    /\ UNCHANGED <<size_vars, monitor_vars, json_vars>>

\* Log rotation, from outside: the file is moved away from the name.
Rotate ==
    /\ log_file.path # None
    /\ log_file.inodes <= MaxRotate
    /\ log_file' = [log_file EXCEPT !.path = None]
    /\ UNCHANGED <<size_vars, file_logger, file_outcome, monitor_vars, json_vars>>

(***************************************************************************)
(* JsonLogger                                                              *)
(*                                                                         *)
(* batch_data is a dict, kept as the sequence of its (name, result) items  *)
(* in insertion order, or None (batch_data_is_None).  The document is      *)
(* written as a sequence of chunks: the opening with `generated`, one      *)
(* chunk per monitor, the closing brace.                                   *)
(***************************************************************************)
\* MonitorResult.status as save_result2 leaves it ("Fail" from __init__).
MonitorResult_status_lt(mon) ==
    IF mon.was_skipped THEN "Skipped"
    ELSE IF mon.virtual_fail_count < 0 THEN "OK"
    ELSE "Fail"

MonitorResult_status(mon) ==
    IF mon.was_skipped THEN "Skipped"
    ELSE IF mon.virtual_fail_count <= 0 THEN "OK"
    ELSE "Fail"

MonitorResult(mon) ==
    [virtual_fail_count |-> mon.virtual_fail_count,
     result |-> mon.last_result,
     first_failure_time |-> format_datetime(mon.first_failure_time),
     status |-> MonitorResult_status(mon)]

\* d[name] = result on a dict: in place when the key is there, else at the end.
DictSet(d, name, result) ==
    IF \E i \in 1..Len(d) : d[i].name = name
    THEN [i \in 1..Len(d) |->
             IF d[i].name = name THEN [name |-> name, result |-> result] ELSE d[i]]
    ELSE Append(d, [name |-> name, result |-> result])

Keys(d) == {d[i].name : i \in 1..Len(d)}

\* json.dump(payload, outfile, ...): the chunks written, in order.
Serialize(payload) ==
    <<[chunk |-> "{", generated |-> payload.generated]>>
    \o [i \in 1..Len(payload.monitors) |->
           [chunk |-> "monitor", name |-> payload.monitors[i].name,
            result |-> payload.monitors[i].result]]
    \o <<[chunk |-> "}"]>>

\* What a reader of the destination makes of it: whether it is a whole
\* document, and the payload it then holds.
IsDocument(content) ==
    /\ Len(content) >= 2
    /\ content[1].chunk = "{"
    /\ content[Len(content)].chunk = "}"
    /\ \A i \in 2..Len(content) - 1 : content[i].chunk = "monitor"

Parse(content) ==
    [generated |-> content[1].generated,
     monitors |-> [i \in 1..Len(content) - 2 |->
                      [name |-> content[i + 1].name,
                       result |-> content[i + 1].result]]]

save_result2_streams(self, file, name, mon) ==
    LET batch == IF self.batch_data_is_None THEN <<>> ELSE self.batch_data
        data  == DictSet(batch, name, MonitorResult(mon))
    IN  [self |-> [self EXCEPT !.batch_data = data, !.batch_data_is_None = FALSE],
         file |-> [exists |-> TRUE,
                   content |-> Serialize([generated |-> format_datetime(now),
                                          monitors |-> data])]]

JsonLogger_save_result2(self, file, name, mon) ==
    LET batch == IF self.batch_data_is_None THEN <<>> ELSE self.batch_data
    IN  [self |-> [self EXCEPT !.batch_data =
                                   DictSet(batch, name, MonitorResult(mon)),
                               !.batch_data_is_None = FALSE],
         file |-> file]

JsonInit ==
    /\ json_logger = [batch_data |-> <<>>, batch_data_is_None |-> TRUE,
                      pc |-> "idle", pending |-> <<>>]
    /\ json_file = [exists |-> FALSE, content |-> <<>>]
    /\ json_outcome = [op |-> "none", ret |-> "none", saved |-> {},
                       generated |-> "None"]

JsonSaveResult(name, mon) ==
    /\ json_logger.pc = "idle"
    /\ LET r == JsonLogger_save_result2(json_logger, json_file, name, mon)
       IN  /\ json_logger' = r.self
           /\ json_file' = r.file
    /\ json_outcome' = [json_outcome EXCEPT
                           !.op = "save_result", !.ret = "returned",
                           !.saved = IF json_outcome.op = "flush_batch"
                                     THEN {name} ELSE @ \cup {name}]
    /\ UNCHANGED <<size_vars, monitor_vars, file_vars>>

\* process_batch up to the open: the payload is made; with batch_data None
\* nothing is opened; open(filename, "w") truncates or creates the file, or
\* raises OSError, which is not caught.
JsonFlushBatch ==
    /\ json_logger.pc = "idle"
    /\ LET payload == [generated |-> format_datetime(now),
                       monitors |-> json_logger.batch_data]
           called  == [json_outcome EXCEPT
                          !.op = "flush_batch", !.generated = payload.generated,
                          !.saved = IF json_outcome.op = "flush_batch"
                                    THEN {} ELSE @]
       IN  \/ /\ json_logger.batch_data_is_None
              /\ json_logger' = [json_logger EXCEPT !.batch_data = <<>>,
                                                    !.batch_data_is_None = FALSE]
              /\ json_file' = json_file
              /\ json_outcome' = [called EXCEPT !.ret = "returned"]
           \/ /\ ~json_logger.batch_data_is_None
              /\ json_logger' = [json_logger EXCEPT !.pc = "dumping",
                                                    !.pending = Serialize(payload)]
              /\ json_file' = [exists |-> TRUE, content |-> <<>>]
              /\ json_outcome' = [called EXCEPT !.ret = "running"]
           \/ /\ ~json_logger.batch_data_is_None
              /\ UNCHANGED <<json_logger, json_file>>
              /\ json_outcome' = [called EXCEPT !.ret = "raised"]
    /\ UNCHANGED <<size_vars, monitor_vars, file_vars>>

\* json.dump writes the next chunk, or the write raises OSError: the with
\* block closes the file and the exception leaves process_batch.
JsonDump ==
    /\ json_logger.pc = "dumping"
    /\ json_logger.pending # <<>>
    /\ \/ /\ json_file' = [json_file EXCEPT
                              !.content = Append(@, Head(json_logger.pending))]
          /\ json_logger' = [json_logger EXCEPT !.pending = Tail(@)]
          /\ json_outcome' = json_outcome
       \/ /\ json_logger' = [json_logger EXCEPT !.pc = "idle", !.pending = <<>>]
          /\ json_file' = json_file
          /\ json_outcome' = [json_outcome EXCEPT !.ret = "raised"]
    /\ UNCHANGED <<size_vars, monitor_vars, file_vars>>

\* The with block ends, batch_data is cleared, process_batch returns.
JsonDumped ==
    /\ json_logger.pc = "dumping"
    /\ json_logger.pending = <<>>
    /\ json_logger' = [json_logger EXCEPT !.pc = "idle", !.batch_data = <<>>]
    /\ json_file' = json_file
    /\ json_outcome' = [json_outcome EXCEPT !.ret = "returned"]
    /\ UNCHANGED <<size_vars, monitor_vars, file_vars>>

(***************************************************************************)
(* Calls of the size-string functions: a byte count is formatted and the   *)
(* text parsed back; a configured limit (a str or None) is parsed.         *)
(***************************************************************************)
Str(chars) == [t |-> "str", chars |-> chars]
Unset == [t |-> "unset"]

\* 0, 1023, 1024, 1048576, 5368709120.
Representative ==
    {Bytes(0), Bytes(Kilo - 1), kb, mb, [hi |-> 5 * Kilo, lo |-> 0]}

\* Byte counts around each unit, and ones whose hundredths are rounded
\* down (1029), up (1030) and at a tie (1152, 1.125 KiB).
ByteCounts ==
    Representative
    \cup {Bytes(n) : n \in 0..MaxDelta}
    \cup {Plus(u, d) : u \in {kb, mb, gb, tb, [hi |-> 5 * Kilo, lo |-> 0]},
                       d \in -MaxDelta..MaxDelta}
    \cup {Bytes(1029), Bytes(1030), Bytes(1152)}

ConfigStrings ==
    {[t |-> "None"], Str(<<>>), Str(<<"0">>), Str(<<"1", "0", "2", "3">>),
     Str(<<"1", "K">>), Str(<<"1", "0", "M">>), Str(<<"5", "G">>),
     Str(<<"G">>), Str(<<"1", ".", "5", "G">>), Str(<<"1", "K", "i", "B">>)}

SizeNone ==
    [pc |-> "none", origin |-> "none", b |-> Bytes(0), s |-> Unset,
     result |-> Unset]

SizeInputs ==
    {[pc |-> "bytes", origin |-> "format", b |-> b, s |-> Unset,
      result |-> Unset] : b \in ByteCounts}
    \cup {[pc |-> "string", origin |-> "config", b |-> Bytes(0), s |-> c,
           result |-> Unset] : c \in ConfigStrings}

SizeInit == size = SizeNone

\* A caller comes with a byte count to format or a limit to parse.
SizeInput ==
    /\ size.pc = "none"
    /\ size' \in SizeInputs
    /\ UNCHANGED <<monitor_vars, file_vars, json_vars>>

FormatBytes ==
    /\ size.pc = "bytes"
    /\ size' = [size EXCEPT !.pc = "string",
                            !.s = Str(_bytes_to_size_string(size.b))]
    /\ UNCHANGED <<monitor_vars, file_vars, json_vars>>

ParseSize ==
    /\ size.pc = "string"
    /\ size' = [size EXCEPT !.pc = "parsed",
                            !.result = _size_string_to_bytes(size.s)]
    /\ UNCHANGED <<monitor_vars, file_vars, json_vars>>

(***************************************************************************)
(* Specifications.                                                         *)
(***************************************************************************)
Init == MonitorInit /\ FileInit /\ JsonInit /\ SizeInit

\* A cycle at a time, on one thread: nothing else runs during a flush.
Idle == json_logger.pc = "idle"

FileSave == \E name \in Names : FileSaveResult(name, monitor)
JsonSave == \E name \in Names : JsonSaveResult(name, monitor)

Next ==
    \/ Idle /\ RunDiskSpace
    \/ Idle /\ RunPortAudit
    \/ Idle /\ RunLoadAvg
    \/ Idle /\ RunMemory
    \/ Idle /\ RunSwap
    \/ Idle /\ Skip
    \/ Idle /\ Tick
    \/ Idle /\ ConstructFileLogger
    \/ Idle /\ FileSave
    \/ Idle /\ Hup
    \/ Idle /\ Rotate
    \/ JsonSave
    \/ JsonFlushBatch
    \/ JsonDump
    \/ JsonDumped
    \/ Idle /\ SizeInput
    \/ Idle /\ FormatBytes
    \/ Idle /\ ParseSize

Spec == Init /\ [][Next]_vars

\* The Monitor alone, every variant and option.
MonitorNext ==
    \/ RunDiskSpace
    \/ RunPortAudit
    \/ RunLoadAvg
    \/ RunMemory
    \/ RunSwap
    \/ Skip
    \/ Tick

MonitorSpec == Init /\ [][MonitorNext]_vars

\* The Monitors handed to a Logger in the Logger specifications.
LoggerMonitors ==
    {m \in MonitorStates : /\ m.virtual_fail_count \in {0, MaxFail}
                           /\ m.first_failure_time \in {None, 0}}

LoggerInit ==
    /\ MonitorInit /\ FileInit /\ JsonInit /\ SizeInit
    /\ monitor = MonitorLoadAvg(1, 1)
    /\ psutil = Imported

\* The FileLogger alone, handed any Monitor (was_skipped, which
\* FileLogger.save_result2 does not read, left FALSE).
FileSaveAny ==
    \E mon \in {m \in LoggerMonitors : ~m.was_skipped} :
        FileSaveResult("m1", mon)

FileNext ==
    \/ ConstructFileLogger
    \/ FileSaveAny
    \/ Hup
    \/ Rotate

FileSpec == LoggerInit /\ [][FileNext]_vars

\* The JsonLogger alone, handed any Monitor, the clock running.
JsonSaveAny == \E name \in Names, mon \in LoggerMonitors : JsonSaveResult(name, mon)

JsonTick == Idle /\ Tick

JsonNext ==
    \/ JsonSaveAny
    \/ JsonFlushBatch
    \/ JsonDump
    \/ JsonDumped
    \/ JsonTick

JsonSpecInit ==
    /\ LoggerInit
    /\ ~file_logger.only_failures
    /\ file_logger.buffered

JsonSpec == JsonSpecInit /\ [][JsonNext]_vars

\* The size-string functions alone, on every input.
SizeNext ==
    \/ FormatBytes
    \/ ParseSize

SizeSpecInit ==
    /\ MonitorInit /\ FileInit /\ JsonInit
    /\ monitor = MonitorDiskSpace(None)
    /\ psutil = Imported
    /\ ~file_logger.only_failures
    /\ file_logger.buffered
    /\ size \in SizeInputs

SizeSpec == SizeSpecInit /\ [][SizeNext]_vars

(***************************************************************************)
(* The shape of the Monitor's failure state, which MonitorStates lists.    *)
(***************************************************************************)
MonitorTypeOK ==
    /\ monitor.virtual_fail_count \in 0..MaxFail
    /\ monitor.first_failure_time \in {None} \cup (0..MaxTime)
    /\ monitor.was_skipped \in BOOLEAN
    /\ (monitor.first_failure_time = None) = (monitor.virtual_fail_count = 0)

(***************************************************************************)
(* Claims about the Monitors (MonitorSpec).                                *)
(***************************************************************************)
\* C1: after every run_test call, virtual_fail_count is the number of runs
\* that failed since the last run that succeeded, and 0 after a success.
C1_FailCountIsFailingRuns ==
    monitor.virtual_fail_count = failing_runs

\* C2: first_failure_time is non-null exactly when virtual_fail_count > 0;
\* it is set (to the time of the run) only by the run that takes the count
\* from 0 to 1, and the later failing runs of the streak leave it alone.
C2_FirstFailureTime ==
    /\ []((monitor.first_failure_time # None) = (monitor.virtual_fail_count > 0))
    /\ [][/\ (monitor.virtual_fail_count = 0 /\ monitor'.virtual_fail_count > 0)
               => monitor'.first_failure_time = now
          /\ (monitor.virtual_fail_count > 0 /\ monitor'.virtual_fail_count > 0)
               => monitor'.first_failure_time = monitor.first_failure_time
          /\ (monitor'.first_failure_time # monitor.first_failure_time)
               => \/ monitor'.virtual_fail_count = 0
                  \/ monitor.virtual_fail_count = 0
                     /\ monitor'.virtual_fail_count = 1]_vars

\* A third failing run in a row, later than the first: the time is the first's.
C2_Witness ==
    /\ monitor.virtual_fail_count >= 3
    /\ run_outcome.ret = "False"
    /\ monitor.first_failure_time # None
    /\ monitor.first_failure_time < now

\* C3: run_test never raises, whatever the variant and the probe's outcome.
C3_RunTestNeverRaises ==
    run_outcome.ret # "raised"

(***************************************************************************)
(* Claims about the JsonLogger (JsonSpec).                                 *)
(***************************************************************************)
\* C4: save_result never changes the destination file; only flush_batch
\* (process_batch and its writes) does.
C4_SaveResultLeavesFile ==
    [][/\ JsonSaveAny => json_file' = json_file
       /\ json_file' # json_file => (JsonFlushBatch \/ JsonDump)]_vars

\* Results saved after a flush that wrote a document, which is still there.
C4_Witness ==
    /\ json_outcome.op = "save_result"
    /\ Len(json_logger.batch_data) = 2
    /\ json_file.exists
    /\ IsDocument(json_file.content)
    /\ Keys(Parse(json_file.content).monitors) = {"m1"}

\* C5: the destination is replaced atomically: at every moment of a flush,
\* and after a flush that failed part-way, it holds a whole document, never
\* an empty or partly written one.
C5_AtomicReplace ==
    json_file.exists => IsDocument(json_file.content)

\* C6: the keys of the document a flush_batch writes are exactly the names
\* passed to save_result since the previous flush_batch call.
C6_KeysAreSavedSinceFlush ==
    (/\ json_outcome.op = "flush_batch"
     /\ json_outcome.ret = "returned"
     /\ json_file.exists)
    => /\ IsDocument(json_file.content)
       /\ Keys(Parse(json_file.content).monitors) = json_outcome.saved

Entry(d, name) == d[CHOOSE i \in 1..Len(d) : d[i].name = name].result

\* C7: the entry save_result accumulates carries the monitor's count, and
\* the status Skipped if was_skipped (whatever the count), else Fail if the
\* count is > 0, else OK.
C7_EntryCountAndStatus ==
    [][\A name \in Names, mon \in LoggerMonitors :
          JsonSaveResult(name, mon) =>
              /\ name \in Keys(json_logger'.batch_data)
              /\ LET e == Entry(json_logger'.batch_data, name)
                 IN  /\ e.virtual_fail_count = mon.virtual_fail_count
                     /\ e.status \in {"OK", "Fail", "Skipped"}
                     /\ e.status = IF mon.was_skipped THEN "Skipped"
                                   ELSE IF mon.virtual_fail_count > 0 THEN "Fail"
                                   ELSE "OK"]_vars

\* A skipped entry with a count > 0 beside a passing one.
C7_Witness ==
    /\ Len(json_logger.batch_data) = 2
    /\ json_logger.batch_data[1].result.status = "Skipped"
    /\ json_logger.batch_data[1].result.virtual_fail_count > 0
    /\ json_logger.batch_data[2].result.status = "OK"
    /\ json_logger.batch_data[2].result.virtual_fail_count = 0

\* C8: after any flush_batch returns, the first one of a fresh JsonLogger
\* included, the destination exists and holds the document of that call.
C8_EveryFlushWrites ==
    (json_outcome.op = "flush_batch" /\ json_outcome.ret = "returned")
    => /\ json_file.exists
       /\ IsDocument(json_file.content)
       /\ Parse(json_file.content).generated = json_outcome.generated

(***************************************************************************)
(* Claims about the FileLogger (FileSpec).                                 *)
(***************************************************************************)
\* C9: with an open, writable handle save_result appends exactly one line,
\* the ok form for a count of 0 and the failed form for a count > 0, except
\* that with only_failures a count of 0 appends nothing.
C9_OneLinePerCall ==
    (/\ file_outcome.op = "save_result"
     /\ file_outcome.was_open
     /\ file_outcome.exc = "")
    => /\ file_outcome.kept
       /\ file_outcome.appended =
             IF file_logger.only_failures /\ file_outcome.args[2] = 0
             THEN <<>>
             ELSE IF file_outcome.args[2] = 0
             THEN <<[text |-> "ok", name |-> file_outcome.args[1]],
                    [text |-> "\n"]>>
             ELSE <<[text |-> "failed since", name |-> file_outcome.args[1],
                     since |-> ToString(file_outcome.args[3]),
                     VFC |-> file_outcome.args[2]],
                    [text |-> "\n"]>>

\* A failed line after the starting line, written under only_failures.
C9_Witness ==
    /\ file_logger.only_failures
    /\ file_outcome.op = "save_result"
    /\ file_outcome.exc = ""
    /\ file_outcome.was_open
    /\ Len(file_outcome.appended) = 2
    /\ file_outcome.appended[1].text = "failed since"
    /\ file_outcome.appended[1].VFC = MaxFail
    /\ file_outcome.args[2] = MaxFail

C12_DegradedSaveReturns ==
    (file_outcome.op = "save_result" /\ ~file_outcome.was_open)
    => file_outcome.ret = "returned"

\* C13: a hup() that succeeds, also after failed ones, leaves the handle
\* open on the file now at the configured path; each save_result from then
\* on appends its line to that file's stream and to no other file, and
\* drops nothing that was written before.  (A step that ends with the record
\* of a hup() or save_result call is that call, or a rotation after it.)
C13_WritesFollowReopen ==
    /\ [][(file_outcome'.op = "hup" /\ ~Rotate /\ file_outcome'.exc = "")
            => /\ ~file_logger'.file_handle.closed
               /\ log_file'.path # None
               /\ file_logger'.file_handle.inode = log_file'.path
               /\ file_logger'.file_handle.buffer = <<>>]_vars
    /\ [][(/\ file_outcome'.op = "save_result"
           /\ ~Rotate
           /\ ~file_logger.file_handle.closed
           /\ file_logger.file_handle.inode = log_file.path)
            => /\ file_logger'.file_handle.inode = log_file'.path
               /\ log_file'.path = log_file.path
               /\ file_outcome'.kept
               /\ ~file_outcome'.lost
               /\ StreamOf(file_logger'.file_handle, log_file')
                     = StreamOf(file_logger.file_handle, log_file)
                       \o file_outcome'.appended
               /\ (file_outcome'.wrote /\ file_outcome'.exc = "")
                     => Len(file_outcome'.appended) = 2
               /\ \A j \in Inodes \ {log_file.path} :
                     log_file'.data[j] = log_file.data[j]]_vars

\* A line written after a rotation and a reopen is in the new file, the
\* rotated-away file holding the earlier ones.
C13_Witness ==
    /\ file_outcome.op = "save_result"
    /\ file_outcome.was_open
    /\ file_outcome.exc = ""
    /\ Len(file_outcome.appended) = 2
    /\ log_file.path = 1
    /\ file_logger.file_handle.inode = 1
    /\ StreamOf(file_logger.file_handle, log_file) = file_outcome.appended
    /\ Len(log_file.data[0]) >= 1

\* C14: flush_batch contains I/O failures: when the destination cannot be
\* opened or written it still returns normally, and the accumulator is
\* cleared.
C14_FlushContainsFailures ==
    (json_outcome.op = "flush_batch" /\ json_outcome.ret # "running")
    => /\ json_outcome.ret = "returned"
       /\ json_logger.batch_data = <<>>

(***************************************************************************)
(* Claims about what each variant's run_test decides (MonitorSpec).        *)
(***************************************************************************)
\* C15: when the probe succeeds, DiskSpace.run_test records success if the
\* free bytes are above the limit and failure if they are at or below it,
\* for every limit, 0 included, and every free space, 0 included; with the
\* limit unset it records success.
C15_DiskSpaceThreshold ==
    [][\A probe \in DiskProbes :
          (/\ monitor._type = "diskspace"
           /\ probe.t = "ok"
           /\ probe.f_blocks > 0
           /\ Ran(DiskSpace_run_test(monitor, probe)))
          => run_outcome'.calls =
                IF monitor.limit = None THEN <<"record_success">>
                ELSE IF probe.f_bavail * FrSize > monitor.limit
                     THEN <<"record_success">>
                     ELSE <<"record_fail">>]_vars

\* C16: LoadAverage.run_test records failure exactly when the figure that
\* `which` selects (0: 1 minute, 1: 5 minutes, 2: 15 minutes) is above max,
\* and success when it is equal or below, whatever the other two figures:
\* so it does on every Monitor object reached, for every measurement.
C16_LoadAvgSelectedFigure ==
    \A probe \in LoadAvgProbes :
        (monitor._type = "loadavg" /\ probe.t = "ok")
        => LET figure == CASE monitor.which = 0 -> probe.loadavg[1]
                           [] monitor.which = 1 -> probe.loadavg[2]
                           [] monitor.which = 2 -> probe.loadavg[3]
               res    == LoadAvg_run_test(monitor, probe)
           IN  /\ (figure > monitor.max)
                     => /\ res.calls = <<"record_fail">>
                        /\ res.ret = "False"
                        /\ res.monitor.virtual_fail_count
                              = monitor.virtual_fail_count + 1
               /\ (figure <= monitor.max)
                     => /\ res.calls = <<"record_success">>
                        /\ res.ret = "True"
                        /\ res.monitor.virtual_fail_count = 0

\* The 15 minute figure was equal to max, some time after the start: success.
C16_Witness ==
    /\ monitor._type = "loadavg"
    /\ monitor.which = 2
    /\ monitor.max = 1
    /\ monitor.last_result = "1.00"
    /\ run_outcome.calls = <<"record_success">>
    /\ monitor.virtual_fail_count = 0
    /\ now > 0

\* C17: when the audit tool could be started, PortAudit.run_test records
\* failure only if some output line matches with a count > 0, and records
\* success for output no line of which matches, also when the tool exited
\* non-zero (CalledProcessError) with such output.
C17_PortAuditUnmatchedIsSuccess ==
    [][\A probe \in PortAuditProbes :
          (/\ monitor._type = "portaudit"
           /\ probe.t \in {"output", "CalledProcessError"}
           /\ Ran(PortAudit_run_test(monitor, probe)))
          => LET counts == {regexp_count(probe.output[i]) :
                               i \in 1..Len(probe.output)}
             IN  /\ run_outcome'.calls = <<"record_fail">>
                       => \E c \in counts : c # None /\ c > 0
                 /\ counts \subseteq {None}
                       => run_outcome'.calls = <<"record_success">>]_vars

\* C20, as claimed: a run_test call that returns has made exactly one call,
\* of record_success or of record_fail; it returns what that call returned,
\* and virtual_fail_count has changed by at most 1.  (A step of the Monitor
\* that is neither Skip nor Tick is a run_test call.)
C20_OneRecordCallChangesByOne ==
    [][(~Skip /\ ~Tick /\ run_outcome'.ret # "raised")
        => /\ run_outcome'.calls \in {<<"record_success">>, <<"record_fail">>}
           /\ run_outcome'.ret = IF run_outcome'.calls = <<"record_success">>
                                 THEN "True" ELSE "False"
           /\ monitor'.virtual_fail_count - monitor.virtual_fail_count
                 \in {-1, 0, 1}]_vars

\* C20, amended: a run_test call that returns has made exactly one call, of
\* record_success or of record_fail; it returns what that call returned, and
\* virtual_fail_count has grown by exactly 1 (record_fail) or is 0, whatever
\* it was (record_success).
C20_OneRecordCallPerRun ==
    [][(~Skip /\ ~Tick /\ run_outcome'.ret # "raised")
        => /\ run_outcome'.calls \in {<<"record_success">>, <<"record_fail">>}
           /\ run_outcome'.ret = IF run_outcome'.calls = <<"record_success">>
                                 THEN "True" ELSE "False"
           /\ run_outcome'.calls = <<"record_fail">>
                 => monitor'.virtual_fail_count
                       = monitor.virtual_fail_count + 1
           /\ run_outcome'.calls = <<"record_success">>
                 => monitor'.virtual_fail_count = 0]_vars

\* A Swap run that returned False through its one record_fail call, the
\* second failing run in a row.
C20_Witness ==
    /\ monitor._type = "swap"
    /\ psutil = Imported
    /\ run_outcome.ret = "False"
    /\ run_outcome.calls = <<"record_fail">>
    /\ monitor.virtual_fail_count = 2
    /\ failing_runs = 2

(***************************************************************************)
(* Claims about the size-string functions (SizeSpec).                      *)
(***************************************************************************)
\* C18: for each of the byte counts 0, 1023, 1024, 1048576 and 5368709120,
\* parsing the formatted text returns a value, and that value is the byte
\* count within the formatter's precision: it is formatted as the same text.
C18_RoundTrip ==
    (size.pc = "parsed" /\ size.origin = "format" /\ size.b \in Representative)
    => /\ size.result.t = "int"
       /\ _bytes_to_size_string(size.result.b) = size.s.chars

AllDigits(chars) == int(chars).t = "int"

\* The text before the point of a formatted value, as a number.
WholePart(chars) ==
    DigitsValue(SubSeq(chars, 1,
                       (CHOOSE i \in 1..Len(chars) : chars[i] = ".") - 1))

\* C19: the formatted text is a bare integer exactly for b < 1024; for
\* b >= 1024 it is in the largest of KiB, MiB, GiB, TiB that does not exceed
\* b (so 1024, 1024^2, 1024^3, 1024^4 are in KiB, MiB, GiB, TiB), and never
\* shows 1024 or more of a unit below TiB.
C19_UnitByMagnitude ==
    (size.origin = "format" /\ size.pc \in {"string", "parsed"})
    => LET chars == size.s.chars
           unit  == IF Ge(size.b, tb) THEN "T"
                    ELSE IF Ge(size.b, gb) THEN "G"
                    ELSE IF Ge(size.b, mb) THEN "M"
                    ELSE IF Ge(size.b, kb) THEN "K"
                    ELSE ""
       IN  IF unit = ""
           THEN AllDigits(chars) /\ DigitsValue(chars) = size.b.lo
           ELSE /\ ~AllDigits(chars)
                /\ Len(chars) >= 7
                /\ SubSeq(chars, Len(chars) - 2, Len(chars)) = <<unit, "i", "B">>
                /\ unit # "T" => WholePart(chars) < Kilo

====
